---- MODULE Spec2Model ----
(***************************************************************************)
(* A model of src/src/signals.py: signals, lazily re-evaluated computed    *)
(* values, eager effects, batch() and untracked().                         *)
(*                                                                         *)
(* The library is single threaded and every call completes before it       *)
(* returns, so every API call made by the host program is one action,      *)
(* computed by operators that follow the methods of the source line by     *)
(* line over a record `g` holding the module globals and every object's    *)
(* fields.  batch(cb) and untracked(cb) are split at the call of cb: what  *)
(* the function does before calling cb, and what it does when cb returns   *)
(* or raises; between the two the host program makes further API calls.    *)
(* Producers of computed values and callbacks of effects are small         *)
(* programs (sequences of instructions) interpreted by Exec.               *)
(***************************************************************************)
EXTENDS Integers, Sequences, FiniteSets, TLC

\* ------------------------------------------------------------------ bounds
\* The number of API calls the host program makes.
MaxCalls == 5
\* The greatest nesting of batch(...) calls of the host program.
MaxDepth == 2

\* ------------------------------------------------------------- the objects
Signals == {"s1", "s2"}
Computeds == {"cA", "cD", "cW"}
Effects == {"e1", "e2"}
Nodes == Computeds \cup Effects
Values == {0, 1}

\* `None`: the initial `computing`, the initial `_computed`, an effect's `value`.
NoNode == "None"
NoneVal == -1
\* A callable returned by an effect's callback (its cleanup).
FnVal == -2

\* ------------------------------------------------- producers and callbacks
Ins(op, a, k) == [op |-> op, a |-> a, k |-> k]

\* The producers of the computed values.
\*   cA = lambda: s1.value
\*   cD = lambda: s1.value and s2.value    (s2 is read only when s1 is truthy)
\*   cW = s2.value, and s2 is then written with the other value
ComputedProgram(c) ==
    CASE c = "cA" -> << Ins("read", "s1", 0) >>
      [] c = "cD" -> << Ins("read", "s1", 0), Ins("jz", "", 1), Ins("read", "s2", 0) >>
      [] c = "cW" -> << Ins("read", "s2", 0), Ins("flip", "s2", 0) >>

\* The callbacks an effect can be constructed with.
\*   sig:    s1.value; return a cleanup callable
\*   comp:   cA.value
\*   glitch: s1.value; cA.value
\*   untr:   s1.value; untracked(lambda: s2.value)
\*   dyn:    s1.value and s2.value
\*   trip:   raise if s2.value is truthy
\*   copy:   s1.value = s2.value
\*   disp:   s1.value; the disposer of the other effect is called
\*   boom:   raise if s1.value is truthy
EffectPrograms(e) ==
    IF e = "e1" THEN {"sig", "comp", "glitch", "untr", "dyn", "trip"}
    ELSE {"comp", "copy", "disp", "boom"}

EffectProgram(p) ==
    CASE p = "sig"    -> << Ins("read", "s1", 0), Ins("retfn", "", 0) >>
      [] p = "comp"   -> << Ins("cread", "cA", 0) >>
      [] p = "glitch" -> << Ins("read", "s1", 0), Ins("cread", "cA", 0) >>
      [] p = "untr"   -> << Ins("read", "s1", 0), Ins("uread", "s2", 0) >>
      [] p = "dyn"    -> << Ins("read", "s1", 0), Ins("jz", "", 1), Ins("read", "s2", 0) >>
      [] p = "trip"   -> << Ins("read", "s2", 0), Ins("jz", "", 1), Ins("raise", "", 0) >>
      [] p = "copy"   -> << Ins("read", "s2", 0), Ins("copy", "s1", 0) >>
      [] p = "disp"   -> << Ins("read", "s1", 0), Ins("dispose", "", 0) >>
      [] p = "boom"   -> << Ins("read", "s1", 0), Ins("jz", "", 1), Ins("raise", "", 0) >>
      [] OTHER        -> << >>

\* The effect whose disposer the callback "disp" of effect e holds.
Other(e) == IF e = "e1" THEN "e2" ELSE "e1"

\* The computed values whose producer has no side effect.
Pure == {"cA", "cD"}

VARIABLES
    sval,         \* Signal._value of each signal
    deps,         \* the list a Signal is: its dependents, in insertion order
    ups,          \* the list a Computed is: the signals its evaluation read
    compute,      \* Computed._compute, the dirty flag
    cached,       \* Computed._computed
    batched,      \* the global pending queue
    synchronous,  \* the global mode: TRUE immediate, FALSE deferred
    tracked,      \* the global tracking flag
    computing,    \* the global currently-evaluating node
    value,        \* the `value` closure variable of each effect
    prog,         \* the callback each effect was constructed with ("" before)
    est,          \* each effect: "absent", "active", "orphan", "disposed"
    spent,        \* each effect: the callable now in `value` was already called
    frames,       \* the `finalize` of each batch call the host program is inside
    made,         \* the number of API calls made so far
    due,          \* the effects a write of the current batch invalidated (history)
    last          \* what the last API call did (history, read by the claims)

vars == << sval, deps, ups, compute, cached, batched, synchronous, tracked,
           computing, value, prog, est, spent, frames, made, due, last >>

\* ------------------------------------------------------------ class Set
Has(q, x) == \E i \in 1..Len(q) : q[i] = x

IndexOf(q, x) == CHOOSE i \in 1..Len(q) : q[i] = x /\ \A j \in 1..(i - 1) : q[j] # x

RemoveAt(q, i) == [j \in 1..(Len(q) - 1) |-> IF j < i THEN q[j] ELSE q[j + 1]]

\* An add without the scan for the value.
add_unscanned(q, x) == Append(q, x)

\* Set.add: append unless an item is the value.
add(q, x) == IF Has(q, x) THEN q ELSE Append(q, x)

\* Set.discard: i counts the items visited; the loop breaks at the value, and
\* without a break i is left at the last index; pop(i) unless i is still -1.
discard(q, x) ==
    IF Len(q) = 0 THEN q
    ELSE IF Has(q, x) THEN RemoveAt(q, IndexOf(q, x))
    ELSE RemoveAt(q, Len(q))

\* cleared(self): a copy of the items is returned and the set itself is emptied.
cleared(q) == [items |-> q, self |-> << >>]

\* ------------------------------------------------------- the interpreter state
\* The module globals, every object's fields, and what a call in progress
\* carries: exc (an exception is propagating), ret (the value returned), and
\* the history of the current API call.
Zero == [n \in Nodes |-> 0]
Nothing == [n \in Nodes |-> {}]

Now ==
    [ sval |-> sval, deps |-> deps, ups |-> ups, compute |-> compute,
      cached |-> cached, batched |-> batched, synchronous |-> synchronous,
      tracked |-> tracked, computing |-> computing, value |-> value,
      prog |-> prog, est |-> est, spent |-> spent,
      exc |-> FALSE, ret |-> NoneVal,
      rd |-> Nothing,      \* the signals each node's evaluation in progress read
      via |-> Nothing,     \* those it read through a computed, with tracking on
      calls |-> Zero,      \* invocations of each producer / callback
      upd |-> {},          \* << s, n >>: the setter of signal s updated node n
      stale |-> {},        \* computed values read while not up to date
      unflat |-> {},       \* nodes not registered with a signal read through a computed
      lingering |-> {},    \* nodes left in the dependents of a signal they did not read
      revived |-> {},      \* effects whose callback ran after their disposer
      twice |-> {},        \* effects whose cleanup callable was called again
      order |-> << >>,     \* the nodes whose producer / callback ran, in order
      discards |-> {},     \* << q, x >>: a disposer called q.discard(x)
      flushed |-> << >>,   \* the nodes a flush found dirty and updated, in order
      evals |-> {} ]       \* << n, p, q >>: `computing` was p when _run of n began
                           \* an evaluation and q when that _run ended

Program(g, n) == IF n \in Computeds THEN ComputedProgram(n) ELSE EffectProgram(g.prog[n])

\* The producer's result over the signal values sv, with no side effect.
RECURSIVE PureExec(_, _, _, _)
PureExec(p, pc, acc, sv) ==
    IF pc > Len(p) THEN acc
    ELSE CASE p[pc].op = "read"  -> PureExec(p, pc + 1, sv[p[pc].a], sv)
           [] p[pc].op = "cread" ->
                PureExec(p, pc + 1, PureExec(ComputedProgram(p[pc].a), 1, 0, sv), sv)
           [] p[pc].op = "jz"    ->
                PureExec(p, IF acc = 0 THEN pc + 1 + p[pc].k ELSE pc + 1, acc, sv)
           [] OTHER -> PureExec(p, pc + 1, acc, sv)

Fresh(c, sv) == PureExec(ComputedProgram(c), 1, 0, sv)

\* The signals that evaluation reads.
RECURSIVE PureReads(_, _, _, _)
PureReads(p, pc, acc, sv) ==
    IF pc > Len(p) THEN {}
    ELSE CASE p[pc].op = "read"  -> {p[pc].a} \cup PureReads(p, pc + 1, sv[p[pc].a], sv)
           [] p[pc].op = "cread" ->
                PureReads(ComputedProgram(p[pc].a), 1, 0, sv)
                    \cup PureReads(p, pc + 1, PureExec(ComputedProgram(p[pc].a), 1, 0, sv), sv)
           [] p[pc].op = "jz"    ->
                PureReads(p, IF acc = 0 THEN pc + 1 + p[pc].k ELSE pc + 1, acc, sv)
           [] OTHER -> PureReads(p, pc + 1, acc, sv)

Upstream(c, sv) == PureReads(ComputedProgram(c), 1, 0, sv)

\* --------------------------------------------------------------- class Signal
\* A getter that subscribes the running node whatever the tracking flag says.
Signal_value_subscribing(g, s) ==
    IF g.computing = NoNode THEN [g EXCEPT !.ret = g.sval[s]]
    ELSE [g EXCEPT !.ups[g.computing] = add(@, s),
                   !.deps[s] = add(@, g.computing),
                   !.rd[g.computing] = @ \cup {s},
                   !.ret = g.sval[s]]

\* Signal.value (getter)
Signal_value(g, s) ==
    IF g.computing = NoNode THEN [g EXCEPT !.ret = g.sval[s]]
    ELSE IF g.tracked
    THEN [g EXCEPT !.ups[g.computing] = add(@, s),
                   !.deps[s] = add(@, g.computing),
                   !.rd[g.computing] = @ \cup {s},
                   !.ret = g.sval[s]]
    ELSE [g EXCEPT !.rd[g.computing] = @ \cup {s}, !.ret = g.sval[s]]

\* untracked(callback): the flag is cleared, and restored in the finally.
untracked_begin(g) == [g EXCEPT !.tracked = FALSE]
untracked_finally(g, tracking) == [g EXCEPT !.tracked = tracking]

\* Calling the callable an effect's `value` holds.
CallValue(g, e) ==
    [g EXCEPT !.twice = IF g.spent[e] THEN @ \cup {e} ELSE @,
              !.spent[e] = TRUE]

\* effect.cleanup, the disposer: the effect is discarded from every signal in
\* its own list, then the stored callable is called.
RECURSIVE DiscardFrom(_, _, _, _)
DiscardFrom(g, e, snap, i) ==
    IF i > Len(snap) THEN g
    ELSE DiscardFrom([g EXCEPT !.deps[snap[i]] = discard(@, e),
                               !.discards = @ \cup {<< g.deps[snap[i]], e >>}],
                     e, snap, i + 1)

\* effect.cleanup, after the loop: the stored callable, if any, is called.
CleanupEnd(g, e) ==
    [(IF g.value[e] = FnVal THEN CallValue(g, e) ELSE g) EXCEPT !.est[e] = "disposed"]

cleanup(g, e) ==
    CleanupEnd(DiscardFrom([g EXCEPT !.ups[e] = cleared(g.ups[e]).self],
                           e, cleared(g.ups[e]).items, 1), e)

\* ------------------------------------------------------------- class Computed
\* The operators below are written so that the result of a call is handed to
\* the operator that continues after it, as in the source one statement
\* follows another.
RECURSIVE Exec(_, _, _, _), Computed_run(_, _), Computed_update(_, _),
          Notify(_, _, _, _), Signal_set(_, _, _), Computed_value(_, _)

\* The loop of Computed.value: every signal the computed read is registered
\* with the outer evaluating node, both ways.
RECURSIVE Flatten(_, _, _)
Flatten(g, snap, i) ==
    IF i > Len(snap) THEN g
    ELSE Flatten([g EXCEPT !.ups[g.computing] = add(@, snap[i]),
                           !.deps[snap[i]] = add(@, g.computing)], snap, i + 1)

\* `return self._computed` of a read of computed c, and its history: whether
\* the value is the producer's result over the current signal values, and
\* what the outer evaluating node read through c.
Returned(g, c, read) ==
    [g EXCEPT !.ret = g.cached[c],
              !.stale = IF c \in Pure /\ g.cached[c] # Fresh(c, g.sval)
                        THEN @ \cup {c} ELSE @,
              !.rd = IF g.computing # NoNode
                     THEN [@ EXCEPT ![g.computing] = @ \cup read] ELSE @,
              !.via = IF g.computing # NoNode /\ g.tracked
                      THEN [@ EXCEPT ![g.computing] = @ \cup read] ELSE @]

\* The history of a completed evaluation of node n.
Evaluated(g, n) ==
    [g EXCEPT !.unflat = IF \E s \in g.via[n] : ~Has(g.deps[s], n)
                         THEN @ \cup {n} ELSE @,
              !.lingering = IF \E s \in Signals \ g.rd[n] : Has(g.deps[s], n)
                            THEN @ \cup {n} ELSE @]

\* The `effect` closure up to the call of the callback: the stored callable,
\* if any, is called.  (A computed's producer starts at once.)
ProducerBegin(g, n) ==
    IF n \in Effects /\ g.value[n] = FnVal THEN CallValue(g, n) ELSE g

\* The history of an invocation of the producer / callback of n.
Invoked(g, n) ==
    [g EXCEPT !.calls[n] = @ + 1,
              !.order = Append(@, n),
              !.revived = IF n \in Effects /\ g.est[n] = "disposed"
                          THEN @ \cup {n} ELSE @]

\* The `effect` closure after the callback: what it returned is stored, and
\* the closure returns None.  (A computed's producer returns its result.)
ProducerEnd(g, n) ==
    IF g.exc \/ n \in Computeds THEN g
    ELSE [g EXCEPT !.value[n] = g.ret, !.spent[n] = FALSE, !.ret = NoneVal]

\* self._value()
Producer(g, n) == ProducerEnd(Exec(Invoked(ProducerBegin(g, n), n), n, 1, 0), n)

\* Computed._run, before the try
RunBegin(g, n) ==
    [g EXCEPT !.computing = n, !.compute[n] = FALSE, !.ups[n] = << >>,
              !.rd[n] = {}, !.via[n] = {}]

\* A _run whose finally clause resets the pointer to None instead of the
\* node that was evaluating before.
RunEnd_reset(g, n, previously) ==
    IF g.exc
    THEN [g EXCEPT !.computing = NoNode]
    ELSE Evaluated([g EXCEPT !.cached[n] = g.ret, !.computing = NoNode], n)

\* Computed._run, the assignment of the result and the finally clause
RunEnd(g, n, previously) ==
    IF g.exc
    THEN [g EXCEPT !.computing = previously]
    ELSE Evaluated([g EXCEPT !.cached[n] = g.ret, !.computing = previously], n)

\* The history of a _run of n that evaluated: the pointer `computing` when it
\* began and when it ended (returning or raising).
RunLeft(g, n, before) == [g EXCEPT !.evals = @ \cup {<< n, before, g.computing >>}]

\* Computed._run
Computed_run(g, n) ==
    IF ~g.compute[n] THEN g
    ELSE RunLeft(RunEnd(Producer(RunBegin(g, n), n), n, g.computing), n, g.computing)

\* An _update that in immediate mode runs every node, exposing or not (a node
\* that is itself evaluating is only marked).
Computed_update_eager(g, n) ==
    IF g.synchronous
    THEN IF n = g.computing
         THEN [g EXCEPT !.compute[n] = TRUE]
         ELSE Computed_run([g EXCEPT !.compute[n] = TRUE], n)
    ELSE [g EXCEPT !.compute[n] = TRUE, !.batched = add(@, n)]

\* Computed._update
Computed_update(g, n) ==
    IF g.synchronous
    THEN IF n \in Computeds
         THEN [g EXCEPT !.compute[n] = TRUE]
         ELSE Computed_run([g EXCEPT !.compute[n] = TRUE], n)
    ELSE [g EXCEPT !.compute[n] = TRUE, !.batched = add(@, n)]

\* Computed.value (getter), after self._run()
ValueEnd(g, c) ==
    IF g.exc THEN g
    ELSE IF c \in Computeds /\ g.tracked /\ g.computing # NoNode
         THEN Returned(Flatten([g EXCEPT !.ups[c] = cleared(g.ups[c]).self],
                               cleared(g.ups[c]).items, 1),
                       c, IF c \in Pure THEN Upstream(c, g.sval) ELSE {})
         ELSE Returned(g, c, IF c \in Pure THEN Upstream(c, g.sval) ELSE {})

\* Computed.value (getter)
Computed_value(g, c) == ValueEnd(Computed_run(g, c), c)

\* Computed.peek, after self._run()
PeekEnd(g, c) == IF g.exc THEN g ELSE Returned(g, c, {})

\* Computed.peek
Computed_peek(g, c) == PeekEnd(Computed_run(g, c), c)

\* The loop of the setter: every dependent drained from the signal is updated;
\* an exception leaves the loop.
Notify(g, s, snap, i) ==
    IF i > Len(snap) \/ g.exc THEN g
    ELSE Notify(Computed_update([g EXCEPT !.upd = @ \cup {<< s, snap[i] >>}], snap[i]),
                s, snap, i + 1)

\* A setter without the identity check.
Signal_set_unchecked(g, s, v) ==
    Notify([g EXCEPT !.sval[s] = v, !.deps[s] = cleared(g.deps[s]).self],
           s, cleared(g.deps[s]).items, 1)

\* Signal.value (setter)
Signal_set(g, s, v) ==
    IF g.sval[s] = v THEN g
    ELSE Notify([g EXCEPT !.sval[s] = v, !.deps[s] = cleared(g.deps[s]).self],
                s, cleared(g.deps[s]).items, 1)

\* The instruction i of the producer / callback of node n, with the state and
\* the accumulator after it.
Do(g, n, acc, i) ==
    CASE i.op = "read"    -> Signal_value(g, i.a)
      [] i.op = "uread"   -> untracked_finally(
                                 Signal_value(untracked_begin(g), i.a), g.tracked)
      [] i.op = "cread"   -> Computed_value(g, i.a)
      [] i.op \in {"copy", "flip"} ->
             [Signal_set(g, i.a, IF i.op = "copy" THEN acc ELSE 1 - acc)
                 EXCEPT !.ret = acc]
      [] i.op = "dispose" ->
             [(IF g.est[Other(n)] \in {"active", "disposed"}
               THEN cleanup(g, Other(n)) ELSE g) EXCEPT !.ret = acc]
      [] i.op = "raise"   -> [g EXCEPT !.exc = TRUE]
      [] i.op = "retfn"   -> [g EXCEPT !.ret = FnVal]
      [] OTHER            -> [g EXCEPT !.ret = acc]

\* Where the producer / callback continues after instruction i at pc.
Jump(pc, acc, i, len) ==
    CASE i.op = "jz"    -> IF acc = 0 THEN pc + 1 + i.k ELSE pc + 1
      [] i.op = "retfn" -> len + 2
      [] OTHER          -> pc + 1

\* The rest of the producer / callback after an instruction left g.
Continue(g, n, pc) == Exec(g, n, pc, g.ret)

\* One instruction after another of the producer / callback of node n; acc is
\* the value the last read returned.  A computed's producer returns acc, a
\* callback returns None unless it returned a callable.
Exec(g, n, pc, acc) ==
    IF g.exc \/ pc > Len(Program(g, n)) + 1 THEN g
    ELSE IF pc = Len(Program(g, n)) + 1
    THEN [g EXCEPT !.ret = IF n \in Computeds THEN acc ELSE NoneVal]
    ELSE Continue(Do(g, n, acc, Program(g, n)[pc]), n,
                  Jump(pc, acc, Program(g, n)[pc], Len(Program(g, n))))

\* effect(callback): the closure variable is None, the Computed is constructed
\* with fx=True and read once; the disposer is returned.
EffectBegin(g, e, p) ==
    [g EXCEPT !.prog[e] = p, !.compute[e] = TRUE, !.cached[e] = NoneVal,
              !.value[e] = NoneVal, !.ups[e] = << >>]

EffectEnd(g, e) == [g EXCEPT !.est[e] = IF g.exc THEN "orphan" ELSE "active"]

effect(g, e, p) == EffectEnd(Computed_value(EffectBegin(g, e, p), e), e)

\* ---------------------------------------------------------------------- batch
\* batch: up to the call of the callback.
batch_begin(g) == [g EXCEPT !.synchronous = FALSE]

\* A flush that calls _run() on the dirty nodes instead of _update().
RECURSIVE Flush_running(_, _, _)
Flush_running(g, snap, i) ==
    IF i > Len(snap) \/ g.exc THEN g
    ELSE Flush_running(IF g.compute[snap[i]]
                       THEN Computed_run([g EXCEPT !.flushed = Append(@, snap[i])],
                                         snap[i])
                       ELSE g,
                       snap, i + 1)

\* batch: the flush, every drained node still dirty is updated.
RECURSIVE Flush(_, _, _)
Flush(g, snap, i) ==
    IF i > Len(snap) \/ g.exc THEN g
    ELSE Flush(IF g.compute[snap[i]]
               THEN Computed_update([g EXCEPT !.flushed = Append(@, snap[i])],
                                    snap[i])
               ELSE g,
               snap, i + 1)

\* A finally clause that leaves the mode flag as the batch set it.
batch_finally_unrestored(g, finalize) == g

\* batch: the finally clause.
batch_finally(g, finalize) == [g EXCEPT !.synchronous = finalize]

\* A batch that flushes in immediate mode whether or not it is the outermost.
batch_return_nested_flush(g, finalize) ==
    IF Len(g.batched) > 0
    THEN batch_finally(
             Flush([g EXCEPT !.synchronous = TRUE,
                             !.batched = cleared(g.batched).self],
                   cleared(g.batched).items, 1), finalize)
    ELSE batch_finally(g, finalize)

\* batch: after the callback returned.
batch_return(g, finalize) ==
    IF finalize /\ Len(g.batched) > 0
    THEN batch_finally(
             Flush([g EXCEPT !.synchronous = finalize,
                             !.batched = cleared(g.batched).self],
                   cleared(g.batched).items, 1), finalize)
    ELSE batch_finally(g, finalize)

\* -------------------------------------------------------------- the API calls
Quiet ==
    [ op |-> "init", a |-> "", changed |-> FALSE, raised |-> FALSE, calls |-> Zero,
      upd |-> {}, stale |-> {}, unflat |-> {}, lingering |-> {}, revived |-> {},
      twice |-> {}, order |-> << >>, discards |-> {}, flushed |-> << >>,
      evals |-> {} ]

\* The state after the call op(a) whose interpreter state ended as g; changed
\* says that the call was a write of a value other than the signal's.
Commit(g, op, a, changed) ==
    /\ made < MaxCalls
    /\ made' = made + 1
    /\ sval' = g.sval
    /\ deps' = g.deps
    /\ ups' = g.ups
    /\ compute' = g.compute
    /\ cached' = g.cached
    /\ batched' = g.batched
    /\ synchronous' = g.synchronous
    /\ tracked' = g.tracked
    /\ computing' = g.computing
    /\ value' = g.value
    /\ prog' = g.prog
    /\ est' = g.est
    /\ spent' = g.spent
    /\ last' = [ op |-> op, a |-> a,
                 changed |-> changed,
                 raised |-> g.exc, calls |-> g.calls, upd |-> g.upd,
                 stale |-> g.stale, unflat |-> g.unflat, lingering |-> g.lingering,
                 revived |-> g.revived, twice |-> g.twice, order |-> g.order,
                 discards |-> g.discards, flushed |-> g.flushed,
                 evals |-> g.evals ]

Top == frames[Len(frames)]
Pop == SubSeq(frames, 1, Len(frames) - 1)

\* The callbacks that write no signal and read s1 in every run, and that
\* signal: each of them depends on it after every run (read directly, or
\* through cA).
NonWriters == {"sig", "comp", "glitch", "untr", "dyn", "disp", "boom"}
Always == "s1"

Init ==
    /\ sval = [s \in Signals |-> 0]
    /\ deps = [s \in Signals |-> << >>]
    /\ ups = [n \in Nodes |-> << >>]
    /\ compute = [n \in Nodes |-> TRUE]
    /\ cached = [n \in Nodes |-> NoneVal]
    /\ batched = << >>
    /\ synchronous = TRUE
    /\ tracked = TRUE
    /\ computing = NoNode
    /\ value = [e \in Effects |-> NoneVal]
    /\ prog = [e \in Effects |-> ""]
    /\ est = [e \in Effects |-> "absent"]
    /\ spent = [e \in Effects |-> FALSE]
    /\ frames = << >>
    /\ made = 0
    /\ due = {}
    /\ last = Quiet

\* s.value = v
Write(s, v) ==
    /\ Commit(Signal_set(Now, s, v), "write", s, v # sval[s])
    /\ due' = IF Len(frames) > 0 /\ s = Always /\ v # sval[s]
              THEN due \cup {e \in Effects : est[e] = "active" /\ prog[e] \in NonWriters}
              ELSE due
    /\ UNCHANGED frames

\* s.value
ReadSignal(s) ==
    /\ Commit(Signal_value(Now, s), "read", s, FALSE)
    /\ UNCHANGED << frames, due >>

\* c.value
ReadComputed(c) ==
    /\ Commit(Computed_value(Now, c), "value", c, FALSE)
    /\ UNCHANGED << frames, due >>

\* c.peek()
PeekComputed(c) ==
    /\ Commit(Computed_peek(Now, c), "peek", c, FALSE)
    /\ UNCHANGED << frames, due >>

\* untracked(lambda: c.value)
UntrackedRead(c) ==
    /\ Commit(untracked_finally(Computed_value(untracked_begin(Now), c), tracked),
              "untracked", c, FALSE)
    /\ UNCHANGED << frames, due >>

\* dispose = effect(callback)
CreateEffect(e, p) ==
    /\ est[e] = "absent"
    /\ Commit(effect(Now, e, p), "effect", e, FALSE)
    /\ UNCHANGED << frames, due >>

\* dispose()
Dispose(e) ==
    /\ est[e] \in {"active", "disposed"}
    /\ Commit(cleanup(Now, e), "dispose", e, FALSE)
    /\ UNCHANGED << frames, due >>

\* batch(callback) is called: its callback starts.
BatchBegin ==
    /\ Len(frames) < MaxDepth
    /\ frames' = Append(frames, synchronous)
    /\ Commit(batch_begin(Now), "batch", "", FALSE)
    /\ UNCHANGED due

\* The callback of the innermost batch returns.
BatchReturn ==
    /\ Len(frames) > 0
    /\ frames' = Pop
    /\ Commit(batch_return(Now, Top), "batch_return", "", FALSE)
    /\ due' = IF Len(frames) = 1 THEN {} ELSE due

\* The callback of the innermost batch raises.
BatchRaise ==
    /\ Len(frames) > 0
    /\ frames' = Pop
    /\ Commit([batch_finally(Now, Top) EXCEPT !.exc = TRUE], "batch_raise", "", FALSE)
    /\ due' = IF Len(frames) = 1 THEN {} ELSE due

Next ==
    \/ \E s \in Signals, v \in Values : Write(s, v)
    \/ \E s \in Signals : ReadSignal(s)
    \/ \E c \in Computeds : ReadComputed(c)
    \/ \E c \in Computeds : PeekComputed(c)
    \/ \E c \in Computeds : UntrackedRead(c)
    \/ \E e \in Effects : \E p \in EffectPrograms(e) : CreateEffect(e, p)
    \/ \E e \in Effects : Dispose(e)
    \/ BatchBegin
    \/ BatchReturn
    \/ BatchRaise

Spec == Init /\ [][Next]_vars

\* ===================================================================== claims
\* In every formula below `last` is the record of the latest API call: the
\* producers and callbacks it invoked (calls, and order: in which order), the
\* dependents each setter updated (upd), the discards its disposers made, and
\* what the call was found to do (stale, unflat, lingering, revived, twice).

\* C1: a read of an exposing computed, after a write to a signal its producer
\* read, returns the producer's result over the signals' current values. Stated
\* here: no read (value) of cA or cD, by the host or by an effect, returns
\* anything but that result.
C1_ReadIsFresh == last.stale = {}

\* C2: whenever a consumer has read an exposing computed, the consumer is
\* subscribed to every signal the computed's producer read, so that a later
\* write to such a signal marks the consumer dirty.
C2_EveryConsumerSubscribed == last.unflat = {}

\* C3: once its disposer has been called an effect's callback is never invoked
\* again, whether or not the effect was pending in a batch or being notified.
C3_DisposedNeverRuns == last.revived = {}

\* C4: after a re-evaluation that did not read a signal X, the node is no
\* longer a dependent of X (so that a later write to X can neither mark it
\* dirty nor re-run it).
C4_UnreadSignalDropped == last.lingering = {}

\* C5: outside any batch, a write that changes the signal (s1) an effect
\* depends on after every run, the effect's callback writing no signal and the
\* write raising nothing, invokes that callback exactly once before the
\* assignment returns.
C5_OnceOnWrite ==
    [][\A e \in Effects :
           ( /\ last'.op = "write" /\ last'.a = Always /\ last'.changed
             /\ ~last'.raised
             /\ synchronous /\ frames = << >>
             /\ est[e] = "active" /\ est'[e] = "active"
             /\ prog[e] \in NonWriters )
           => last'.calls[e] = 1]_vars

\* C6: an effect whose signal (s1) was changed inside a batch is invoked zero
\* times before the outermost batch callback returns, and exactly once during
\* the flush, however many writes there were.
C6_OnceOnFlush ==
    [][\A e \in Effects :
           /\ ( /\ Len(frames) > 0
                /\ ~(last'.op = "batch_return" /\ Len(frames) = 1)
                /\ est[e] = "active" /\ prog[e] \in NonWriters )
              => last'.calls[e] = 0
           /\ ( /\ last'.op = "batch_return" /\ Len(frames) = 1
                /\ ~last'.raised
                /\ e \in due /\ est[e] = "active" /\ est'[e] = "active" )
              => last'.calls[e] = 1]_vars

\* C7: assigning a signal the value it already holds changes no dirty flag,
\* no pending queue, no dependent set and no stored value, and invokes no
\* callback.
C7_IdenticalWriteIsNoOp ==
    [][(last'.op = "write" /\ ~last'.changed)
           => /\ UNCHANGED << sval, deps, ups, compute, cached, batched,
                              synchronous, tracked, computing, value, prog, est,
                              spent >>
              /\ last'.calls = Zero
              /\ last'.upd = {}]_vars

\* An identical write to a signal that has dependents.
C7_Witness ==
    /\ last.op = "write" /\ ~last.changed
    /\ deps[last.a] # << >>
    /\ \E e \in Effects : est[e] = "active" /\ Has(deps[last.a], e)

\* C8: an effect that reads the signal s2 only inside untracked is not a
\* dependent of s2 after any of its runs, the setter of s2 never updates it, and
\* a write that changes s2 and leaves the signal it tracks (s1) as it was does
\* not invoke its callback.
C8_UntrackedReadDoesNotSubscribe ==
    [][\A e \in Effects :
           prog'[e] = "untr"
           => /\ ~Has(deps'["s2"], e)
              /\ << "s2", e >> \notin last'.upd
              /\ ( /\ last'.op = "write" /\ last'.a = "s2" /\ last'.changed
                   /\ sval'["s1"] = sval["s1"] )
                 => last'.calls[e] = 0]_vars

\* The effect exists, and a write has just changed s2 without running it.
C8_Witness ==
    \E e \in Effects :
        /\ prog[e] = "untr" /\ est[e] = "active"
        /\ last.op = "write" /\ last.a = "s2" /\ last.changed
        /\ last.calls[e] = 0

\* C9: when a batch called inside another batch's callback returns, nothing is
\* flushed: the mode stays deferred, the pending queue and the dirty flags are
\* as they were and no callback is invoked; the queue is emptied only when the
\* outermost batch returns.
C9_InnerBatchDoesNotFlush ==
    [][ /\ (last'.op = "batch_return" /\ Len(frames) > 1)
           => /\ ~synchronous'
              /\ batched' = batched
              /\ compute' = compute
              /\ last'.calls = Zero
        /\ Len(batched') < Len(batched)
           => (last'.op = "batch_return" /\ Len(frames) = 1) ]_vars

\* An inner batch has returned while a dirty effect is pending.
C9_Witness ==
    /\ last.op = "batch_return" /\ Len(frames) > 0
    /\ \E e \in Effects : Has(batched, e) /\ compute[e] /\ est[e] = "active"

\* C10: batch restores the mode flag to the value it had just before the call,
\* when the callback returns, when the callback raises, and when an effect run
\* by the flush raises.
C10_ModeRestored ==
    [][last'.op \in {"batch_return", "batch_raise"}
           => synchronous' = frames[Len(frames)]]_vars

\* The flush of an outermost batch has raised, and the mode is immediate again.
C10_Witness ==
    /\ last.op = "batch_return" /\ last.raised
    /\ frames = << >> /\ synchronous

\* C11: Set.discard(x) removes exactly x when x is in the set and leaves the
\* set as it was (same items, same order) when x is not, also when the set is
\* not empty. Stated of every discard a disposer makes.
C11_DiscardRemovesExactlyX ==
    \A d \in last.discards :
        LET Kept(y) == y # d[2]
        IN  discard(d[1], d[2]) = SelectSeq(d[1], Kept)

\* C16: when a dependent's re-run raises during the notification of a write,
\* every dependent of that signal the setter did not reach keeps its dirty
\* flag and is still a dependent of the signal.
C16_UnreachedUnaffected ==
    [][(last'.op = "write" /\ last'.raised)
           => \A n \in Nodes :
                  (Has(deps[last'.a], n) /\ << last'.a, n >> \notin last'.upd)
                  => (Has(deps'[last'.a], n) /\ compute'[n] = compute[n])]_vars

\* C18: whenever the mode is immediate and no batch is active the pending
\* queue is empty.
C18_QueueEmptyWhenImmediate ==
    (synchronous /\ frames = << >>) => batched = << >>

\* C19: a disposer removes only its own effect from the dependents of a
\* signal: every other node is in the set after a disposer's discard exactly
\* when it was in it before.
C19_DisposerRemovesOnlyItself ==
    \A d \in last.discards :
        \A n \in Nodes \ {d[2]} : Has(discard(d[1], d[2]), n) <=> Has(d[1], n)

\* C20: a cleanup callable returned by an effect's callback is called at most
\* once, whatever re-runs and disposer calls follow.
C20_CleanupCalledOnce == last.twice = {}

\* C12: no reference appears twice in an ordered set: not in a signal's
\* dependents, not in a node's list of upstream signals, not in the pending
\* queue.
C12_NoReferenceTwice ==
    /\ \A s \in Signals : \A i, j \in 1..Len(deps[s]) :
           deps[s][i] = deps[s][j] => i = j
    /\ \A n \in Nodes : \A i, j \in 1..Len(ups[n]) :
           ups[n][i] = ups[n][j] => i = j
    /\ \A i, j \in 1..Len(batched) : batched[i] = batched[j] => i = j

\* An effect has read s1 itself and again through cA, evaluated in that run:
\* both of its edges with s1 were added a second time.
C12_Witness ==
    \E e \in Effects :
        /\ prog[e] = "glitch" /\ est[e] = "active"
        /\ last.calls[e] = 1 /\ last.calls["cA"] = 1
        /\ ups[e] = << "s1" >> /\ Has(deps["s1"], e)

\* C13: when the outermost batch's callback returns the pending queue is
\* emptied, and (the flush raising nothing) every node that was in it and was
\* dirty, effect or exposing computed, has been re-evaluated: its producer ran
\* and it is clean.
C13_FlushReevaluatesEveryNode ==
    [][(last'.op = "batch_return" /\ Len(frames) = 1)
           => /\ batched' = << >>
              /\ ~last'.raised
                 => \A n \in Nodes :
                        (Has(batched, n) /\ compute[n])
                        => (last'.calls[n] >= 1 /\ ~compute'[n])]_vars

\* C13 as amended: the queue is emptied; the flush visits the drained nodes in
\* the order they were enqueued and updates those it finds dirty; every effect
\* that was dirty has been re-run and is clean, unless a re-run raised; an
\* exposing computed is not evaluated by the flush, it stays dirty unless an
\* effect that ran read it.
C13_FlushRerunsEffectsInOrder ==
    [][(last'.op = "batch_return" /\ Len(frames) = 1)
           => /\ batched' = << >>
              /\ \A i \in 1..Len(last'.flushed) :
                     /\ Has(batched, last'.flushed[i])
                     /\ \A j \in 1..(i - 1) :
                            IndexOf(batched, last'.flushed[j])
                                < IndexOf(batched, last'.flushed[i])
                     /\ last'.flushed[i] \in Effects
                        => last'.calls[last'.flushed[i]] >= 1
              /\ ~last'.raised
                 => \A e \in Effects :
                        (Has(batched, e) /\ compute[e])
                        => (last'.calls[e] >= 1 /\ ~compute'[e])
              /\ \A c \in Computeds :
                     (/\ Has(batched, c) /\ compute[c]
                      /\ \A e \in Effects :
                             \/ last'.calls[e] = 0
                             \/ ~(c = "cA" /\ prog[e] \in {"comp", "glitch"}))
                     => (last'.calls[c] = 0 /\ compute'[c])]_vars

\* The flush of an outermost batch has updated a computed and an effect: the
\* effect ran, the computed is still dirty.
C13_Witness ==
    /\ last.op = "batch_return" /\ frames = << >> /\ ~last.raised
    /\ \E e \in Effects, c \in Computeds :
           /\ Has(last.flushed, e) /\ Has(last.flushed, c)
           /\ last.calls[e] >= 1 /\ last.calls[c] = 0 /\ compute[c]

\* C14: the producer of an exposing computed runs only inside a read of that
\* computed: in every call, a computed whose producer ran is the computed the
\* host read, or was read by an effect's callback that ran before it (only cA
\* is read by callbacks); no write and no flush runs one otherwise. And a read
\* of a clean computed runs no producer of it.
C14_ComputedIsLazy ==
    [][ /\ \A i \in 1..Len(last'.order) :
               last'.order[i] \in Computeds
               => \/ /\ last'.op \in {"value", "peek", "untracked"}
                     /\ last'.order[i] = last'.a
                  \/ /\ last'.order[i] = "cA"
                     /\ \E j \in 1..(i - 1) :
                            /\ last'.order[j] \in Effects
                            /\ prog'[last'.order[j]] \in {"comp", "glitch"}
        /\ (last'.op \in {"value", "peek", "untracked"} /\ ~compute[last'.a])
              => last'.calls[last'.a] = 0 ]_vars

\* A write in immediate mode has just invalidated a computed that had been
\* evaluated: it is dirty and its producer did not run.
C14_Witness ==
    /\ last.op = "write" /\ last.changed /\ synchronous
    /\ \E c \in Computeds :
           /\ << last.a, c >> \in last.upd
           /\ compute[c] /\ cached[c] # NoneVal /\ last.calls[c] = 0

\* C15: cW's producer reads s2 and then writes s2 with the other value. After
\* every read of cW (value, peek, or value inside untracked) that ran the
\* producer and raised nothing, cW is dirty, and in the pending queue when the
\* mode is deferred: the invalidation made during the evaluation is kept, so
\* the next read runs the producer again.
C15_ReentrantInvalidationKept ==
    [][(/\ last'.op \in {"value", "peek", "untracked"} /\ last'.a = "cW"
        /\ last'.calls["cW"] >= 1 /\ ~last'.raised)
           => /\ compute'["cW"]
              /\ ~synchronous' => Has(batched', "cW")]_vars

\* C17: the currently-evaluating pointer is restored by every evaluation,
\* returning or raising, nested or not: when a _run that evaluated ends, the
\* pointer is what it was when that _run began; it is None after every call
\* of the host program, and a read of a signal by the host registers no edge.
C17_PointerRestored ==
    [][ /\ \A r \in last'.evals : r[3] = r[2]
        /\ computing' = NoNode
        /\ last'.op = "read" => UNCHANGED << deps, ups >> ]_vars

\* A read of cW has re-run an effect inside cW's evaluation, that effect's
\* write has re-run the other effect, which evaluated cA: four evaluations
\* nested in one another, each leaving the pointer at the node around it.
C17_Witness ==
    /\ last.op = "value" /\ last.a = "cW"
    /\ << "cW", NoNode, NoNode >> \in last.evals
    /\ << "e2", "cW", "cW" >> \in last.evals
    /\ << "e1", "e2", "e2" >> \in last.evals
    /\ << "cA", "e1", "e1" >> \in last.evals
    /\ computing = NoNode

====
